---- MODULE Spec2Model ----
(***************************************************************************)
(* Model of the PS1-Oracle narrative pipeline                              *)
(* (minimal_implementation/run_narrative.py, interpret.py,                 *)
(* interpret_llm.py).                                                      *)
(*                                                                         *)
(* Representation.  A Python str is a sequence of one-character strings    *)
(* (<<"P","S","1">> is "PS1"), so that tokenisation and the regular        *)
(* expressions of the code are computed character by character.  A Python  *)
(* dict is a function whose DOMAIN is its key set, a list is a sequence,   *)
(* a set is a set.                                                         *)
(***************************************************************************)
EXTENDS Integers, Sequences, FiniteSets, TLC

VARIABLES
    REL,            \* relations.json : symbol -> {"requires": [...]}
    PASSAGES,       \* manual_passages.json : list of {"id","text","role","tokens"}
    SYMBOLS,        \* symbols.json : {"functions","literals","enums"}
    NEUT_MAP,       \* neutral_map.json : {"lex2neutral","neutral2sdk"}
    pc,             \* position of the running call
    call,           \* name and arguments of the call under way
    ret,            \* what the call returned
    activated,      \* generate_narrative: set(interp["bag_of_api"])
    banned,         \* generate_narrative: interp["unrepresentable"]
    allowed_tokens, \* generate_narrative: expand_with_requires(list(activated))
    quotes,         \* generate_narrative: selected passages
    out,            \* generate_narrative: the generator output being processed
    log,            \* the "[k/5]" progress lines printed so far
    posts,          \* the requests.post calls made so far, with what each returned
    exit_code,      \* main: the exit status of the process, -1 while it runs
    dfs             \* closure computation run step by step: call stack, seen, out

vars == <<REL, PASSAGES, SYMBOLS, NEUT_MAP, pc, call, ret, activated, banned,
          allowed_tokens, quotes, out, log, posts, exit_code, dfs>>

static == <<REL, PASSAGES, SYMBOLS, NEUT_MAP>>

locals == <<activated, banned, allowed_tokens, quotes, out, log, posts, exit_code, dfs>>

-----------------------------------------------------------------------------
(* Bounds *)

MaxReq == 2

MaxTargets == 3

MaxPassages == 3

MaxQuotes == 2

MaxNarr == 4

MaxCites == 2

MaxText == 3

-----------------------------------------------------------------------------
(* Generic helpers for Python values *)

Get(d, k, default) == IF k \in DOMAIN d THEN d[k] ELSE default

Range(s) == {s[i] : i \in 1..Len(s)}

SeqsUpTo(S, n) == UNION {[1..k -> S] : k \in 0..n}

\* every order in which Python may iterate over the set S
Orders(S) == {s \in [1..Cardinality(S) -> S] : Range(s) = S}

Count(s, x) == Cardinality({i \in 1..Len(s) : s[i] = x})

-----------------------------------------------------------------------------
(* Symbols of the model's vocabulary *)

SymA == <<"A">>

SymB == <<"B">>

SymC == <<"C">>

Sym == {SymA, SymB, SymC}

-----------------------------------------------------------------------------
(* Requires closure *)

requires_of(tok) == Get(Get(REL, tok, <<>>), "requires", <<>>)

RECURSIVE add(_, _)
RECURSIVE addEach(_, _, _)
\* add without the visited-set guard: a symbol is emitted every time it is met
add_unguarded(st, w) ==
    LET st2 == addEach(st, requires_of(w), 1)
    IN  [out |-> Append(st2.out, w), seen |-> st2.seen \cup {w}]

\* st = [out, seen], the two closure variables of expand_with_requires
add(st, w) ==
    IF w \in st.seen THEN st
    ELSE LET st2 == addEach(st, requires_of(w), 1)
         IN  [out |-> Append(st2.out, w), seen |-> st2.seen \cup {w}]

addEach(st, ws, i) ==
    IF i > Len(ws) THEN st ELSE addEach(add(st, ws[i]), ws, i + 1)

expand_with_requires(tokens) ==
    addEach([out |-> <<>>, seen |-> {}], tokens, 1).out

RECURSIVE add_with_requires(_, _)
RECURSIVE add_with_requires_each(_, _, _)
\* st = [seq, seen], the two closure variables of topo_require_chain
add_with_requires(st, w) ==
    IF w \in st.seen THEN st
    ELSE LET st2 == add_with_requires_each(st, requires_of(w), 1)
         IN  IF w \notin st2.seen
             THEN [seq |-> Append(st2.seq, w), seen |-> st2.seen \cup {w}]
             ELSE st2

add_with_requires_each(st, ws, i) ==
    IF i > Len(ws) THEN st
    ELSE add_with_requires_each(add_with_requires(st, ws[i]), ws, i + 1)

topo_require_chain(targets) ==
    add_with_requires_each([seq |-> <<>>, seen |-> {}], targets, 1).seq

requires_set(tokens, order) ==
    Range(expand_with_requires(order)) \ tokens

\* the symbols reachable from w along requires edges, in at least one step
RECURSIVE ReachFrom(_, _)
ReachFrom(frontier, acc) ==
    LET nxt == UNION {Range(requires_of(w)) : w \in frontier} \ acc
    IN  IF nxt = {} THEN acc ELSE ReachFrom(nxt, acc \cup nxt)

Req(w) == ReachFrom({w}, {})

Acyclic == \A w \in Sym : w \notin Req(w)

\* relations.json contents over Sym: a symbol may be absent, or carry a
\* requires list
RelEntries == {<<>>} \cup {[requires |-> r] : r \in SeqsUpTo(Sym, MaxReq)}

Relations == UNION {[D -> RelEntries \ {<<>>}] : D \in SUBSET Sym}

-----------------------------------------------------------------------------
(* Specification of the closure functions, called on their own *)

NoRet == [done |-> FALSE]

InitStatic0 ==
    /\ PASSAGES = <<>>
    /\ SYMBOLS = [functions |-> <<>>, literals |-> <<>>, enums |-> <<>>]
    /\ NEUT_MAP = [lex2neutral |-> <<>>, neutral2sdk |-> <<>>]

InitLocals0 ==
    /\ activated = {}
    /\ banned = <<>>
    /\ allowed_tokens = <<>>
    /\ quotes = <<>>
    /\ out = <<>>
    /\ log = <<>>
    /\ posts = <<>>
    /\ exit_code = -1
    /\ dfs = [stack |-> <<>>, seen |-> {}, out |-> <<>>, t |-> 1]

InitExpand ==
    /\ REL \in Relations
    /\ Acyclic
    /\ InitStatic0
    /\ InitLocals0
    /\ pc = "call"
    /\ \E t \in SeqsUpTo(Sym, MaxTargets), f \in {"expand_with_requires", "topo_require_chain"} :
          call = [fn |-> f, tokens |-> t]
    /\ ret = NoRet

ExpandCall ==
    /\ pc = "call"
    /\ call.fn = "expand_with_requires"
    /\ ret' = [done |-> TRUE, value |-> expand_with_requires(call.tokens)]
    /\ pc' = "returned"
    /\ UNCHANGED <<static, call, locals>>

TopoCall ==
    /\ pc = "call"
    /\ call.fn = "topo_require_chain"
    /\ ret' = [done |-> TRUE, value |-> topo_require_chain(call.tokens)]
    /\ pc' = "returned"
    /\ UNCHANGED <<static, call, locals>>

NextExpand == ExpandCall \/ TopoCall

SpecExpand == InitExpand /\ [][NextExpand]_vars

-----------------------------------------------------------------------------
(* C1 *)

IndexOf(s, x) == CHOOSE i \in 1..Len(s) : s[i] = x

ClosureOf(targets) == Range(targets) \cup UNION {Req(t) : t \in Range(targets)}

\* C1: on an acyclic requires relation the closure functions return exactly
\* the targets and the symbols they transitively require, each exactly once,
\* every symbol strictly after all the symbols of its own requires list.
C1_ClosureIsTopologicalOrder ==
    (pc = "returned" /\ call.fn \in {"expand_with_requires", "topo_require_chain"}) =>
        LET r == ret.value IN
        /\ Range(r) = ClosureOf(call.tokens)
        /\ \A w \in Range(r) : Count(r, w) = 1
        /\ \A w \in Range(r) : \A q \in Range(requires_of(w)) :
              /\ q \in Range(r)
              /\ IndexOf(r, q) < IndexOf(r, w)

\* a repeated target that is also a prerequisite of another target, with a
\* two-step requires chain behind it
C1_Witness ==
    /\ pc = "returned"
    /\ call.fn = "expand_with_requires"
    /\ Len(call.tokens) = 3
    /\ call.tokens[1] = call.tokens[3]
    /\ call.tokens[1] \in Req(call.tokens[2])
    /\ \E w \in Sym : Req(w) = Sym \ {w}
    /\ Len(ret.value) = 3

-----------------------------------------------------------------------------
(* Passage selection *)

\* pass 1 of select_passages_event_minimal, from corpus position i on;
\* st = [chosen, seen_ids, returned], returned meaning the early return fired
RECURSIVE scan_non_backbone(_, _, _, _)
scan_non_backbone(st, i, T, max_quotes) ==
    IF i > Len(PASSAGES) THEN st
    ELSE LET p == PASSAGES[i] IN
         IF p.id \in st.seen_ids \/ Get(p, "role", "None") = "backbone"
         THEN scan_non_backbone(st, i + 1, T, max_quotes)
         ELSE IF \E k \in 1..Len(Get(p, "tokens", <<>>)) : p.tokens[k] \in T
         THEN LET chosen2 == Append(st.chosen, [id |-> p.id, text |-> p.text])
                  st2 == [chosen |-> chosen2,
                          seen_ids |-> st.seen_ids \cup {p.id},
                          returned |-> Len(chosen2) >= max_quotes]
              IN  IF st2.returned THEN st2
                  ELSE scan_non_backbone(st2, i + 1, T, max_quotes)
         ELSE scan_non_backbone(st, i + 1, T, max_quotes)

\* pass 2 of select_passages_event_minimal, from corpus position i on
RECURSIVE scan_backbone(_, _, _, _)
scan_backbone(st, i, prereq_only, max_quotes) ==
    IF i > Len(PASSAGES) THEN st
    ELSE LET p == PASSAGES[i] IN
         IF p.id \in st.seen_ids \/ Get(p, "role", "None") # "backbone"
         THEN scan_backbone(st, i + 1, prereq_only, max_quotes)
         ELSE IF \E k \in 1..Len(Get(p, "tokens", <<>>)) : p.tokens[k] \in prereq_only
         THEN LET chosen2 == Append(st.chosen, [id |-> p.id, text |-> p.text])
                  st2 == [chosen |-> chosen2,
                          seen_ids |-> st.seen_ids \cup {p.id},
                          returned |-> st.returned]
              IN  IF Len(chosen2) >= max_quotes THEN st2
                  ELSE scan_backbone(st2, i + 1, prereq_only, max_quotes)
         ELSE scan_backbone(st, i + 1, prereq_only, max_quotes)

\* the selection with pass 2 testing T instead of prereq_only
select_passages_backbone_for_T(activated_tokens, order, max_quotes) ==
    LET T == Range(expand_with_requires(order))
        st1 == scan_non_backbone([chosen |-> <<>>, seen_ids |-> {}, returned |-> FALSE],
                                 1, T, max_quotes)
    IN  IF st1.returned THEN st1.chosen
        ELSE scan_backbone(st1, 1, T, max_quotes).chosen

\* order is the order in which list(activated_tokens) enumerates the set
select_passages_event_minimal(activated_tokens, order, max_quotes) ==
    LET T == Range(expand_with_requires(order))
        prereq_only == requires_set(activated_tokens, order)
        st1 == scan_non_backbone([chosen |-> <<>>, seen_ids |-> {}, returned |-> FALSE],
                                 1, T, max_quotes)
    IN  IF st1.returned THEN st1.chosen
        ELSE scan_backbone(st1, 1, prereq_only, max_quotes).chosen

-----------------------------------------------------------------------------
(* Specification of the passage selection, called on its own *)

IdP == <<"p">>

IdQ == <<"q">>

PassageIds == {IdP, IdQ}

PassageTokens == {<<SymA>>, <<SymB>>}

\* the text of a passage is its position in the corpus, so that a returned
\* {"id","text"} pair names one passage even when two passages share an id
TextOf(i) == <<"t", i>>

\* an ordinary passage carries no "role" key
PassageAt(i, id, backbone, tokens) ==
    IF backbone
    THEN [id |-> id, text |-> TextOf(i), role |-> "backbone", tokens |-> tokens]
    ELSE [id |-> id, text |-> TextOf(i), tokens |-> tokens]

Corpora ==
    UNION {{[i \in 1..n |-> PassageAt(i, ids[i], bb[i], toks[i])] :
               ids \in [1..n -> PassageIds], bb \in [1..n -> BOOLEAN],
               toks \in [1..n -> PassageTokens]} : n \in 0..MaxPassages}

RelNone == <<>>

RelAB == (SymA :> [requires |-> <<SymB>>])

RelBA == (SymB :> [requires |-> <<SymA>>])

RelChain == (SymC :> [requires |-> <<SymB>>]) @@ (SymB :> [requires |-> <<SymA>>])

SelectRelations == {RelNone, RelAB, RelBA, RelChain}

InitSelect ==
    /\ REL \in SelectRelations
    /\ PASSAGES \in Corpora
    /\ SYMBOLS = [functions |-> <<>>, literals |-> <<>>, enums |-> <<>>]
    /\ NEUT_MAP = [lex2neutral |-> <<>>, neutral2sdk |-> <<>>]
    /\ InitLocals0
    /\ pc = "call"
    /\ \E a \in SUBSET Sym, m \in 0..MaxQuotes :
          call = [fn |-> "select_passages_event_minimal",
                  activated_tokens |-> a, max_quotes |-> m]
    /\ ret = NoRet

SelectCall ==
    /\ pc = "call"
    /\ call.fn = "select_passages_event_minimal"
    /\ \E order \in Orders(call.activated_tokens) :
          ret' = [done |-> TRUE,
                  value |-> select_passages_event_minimal(
                                call.activated_tokens, order, call.max_quotes)]
    /\ pc' = "returned"
    /\ UNCHANGED <<static, call, locals>>

NextSelect == SelectCall

SpecSelect == InitSelect /\ [][NextSelect]_vars

SelectReturned == pc = "returned" /\ call.fn = "select_passages_event_minimal"

\* C2: select_passages_event_minimal returns at most max_quotes passages,
\* also for max_quotes = 0, and no two returned passages share an identifier.
C2_AtMostMaxQuotesDistinctIds ==
    SelectReturned =>
        /\ Len(ret.value) <= call.max_quotes
        /\ \A i, j \in 1..Len(ret.value) :
              i # j => ret.value[i].id # ret.value[j].id

\* the part of C2 the code keeps for every max_quotes: identifiers are distinct
C2_DistinctIds ==
    SelectReturned =>
        \A i, j \in 1..Len(ret.value) : i # j => ret.value[i].id # ret.value[j].id

\* the corpus passage a returned {"id","text"} pair was copied from
SourceOf(q) == CHOOSE i \in 1..Len(PASSAGES) :
                  PASSAGES[i].id = q.id /\ PASSAGES[i].text = q.text

IsBackbone(p) == Get(p, "role", "None") = "backbone"

PrereqOnly(a) == UNION {Req(w) : w \in a} \ a

\* C3: every backbone passage returned substantiates a symbol of
\* prereq_only = closure(activated) minus activated; when the closure adds no
\* prerequisite, no backbone passage is returned.
C3_BackboneOnlyForPrerequisites ==
    SelectReturned =>
        /\ \A k \in 1..Len(ret.value) :
              LET p == PASSAGES[SourceOf(ret.value[k])] IN
              IsBackbone(p) => Range(p.tokens) \cap PrereqOnly(call.activated_tokens) # {}
        /\ PrereqOnly(call.activated_tokens) = {} =>
              \A k \in 1..Len(ret.value) : ~IsBackbone(PASSAGES[SourceOf(ret.value[k])])

\* a backbone passage is returned for a prerequisite while another backbone
\* passage, substantiating only an activated symbol, is left out with quota left
C3_Witness ==
    /\ SelectReturned
    /\ \E k \in 1..Len(ret.value) : IsBackbone(PASSAGES[SourceOf(ret.value[k])])
    /\ Len(ret.value) < call.max_quotes
    /\ \E i \in 1..Len(PASSAGES) :
          /\ IsBackbone(PASSAGES[i])
          /\ Range(PASSAGES[i].tokens) \subseteq call.activated_tokens
          /\ \A k \in 1..Len(ret.value) : ret.value[k].id # PASSAGES[i].id

-----------------------------------------------------------------------------
(* Characters and the regular expressions of the code *)

UpperChars == {"A", "B", "C", "I", "P", "S", "X"}

LowerChars == {"a", "b", "c", "i", "p", "s", "x", "q", "t"}

DigitChars == {"0", "1"}

\* \w, for the ASCII characters of the model
IsWordChar(c) == c \in UpperChars \cup LowerChars \cup DigitChars \cup {"_"}

\* [a-zA-Z0-9_.-]
IsIdChar(c) == IsWordChar(c) \/ c \in {".", "-"}

LowerOf ==
    [c \in UpperChars |->
        CASE c = "A" -> "a" [] c = "B" -> "b" [] c = "C" -> "c" [] c = "I" -> "i"
          [] c = "P" -> "p" [] c = "S" -> "s" [] c = "X" -> "x"]

\* str.lower()
lower(s) == [i \in 1..Len(s) |-> IF s[i] \in UpperChars THEN LowerOf[s[i]] ELSE s[i]]

\* \b at position i (between s[i-1] and s[i])
IsWordAt(s, i) == i >= 1 /\ i <= Len(s) /\ IsWordChar(s[i])

IsBoundary(s, i) == IsWordAt(s, i - 1) # IsWordAt(s, i)

\* first position from i on that does not hold a character of the class
WordRunEnd(s, i) ==
    CHOOSE j \in i..(Len(s) + 1) :
        /\ \A k \in i..(j - 1) : IsWordChar(s[k])
        /\ j = Len(s) + 1 \/ ~IsWordChar(s[j])

IdRunEnd(s, i) ==
    CHOOSE j \in i..(Len(s) + 1) :
        /\ \A k \in i..(j - 1) : IsIdChar(s[k])
        /\ j = Len(s) + 1 \/ ~IsIdChar(s[j])

\* re.sub(r"\[([a-zA-Z0-9_.-]+)\]", citation_replacer, s), from position i on
RECURSIVE citation_sub(_, _, _)
citation_sub(s, i, provided_ids) ==
    IF i > Len(s) THEN <<>>
    ELSE LET j == IdRunEnd(s, i + 1) IN
         IF s[i] = "[" /\ j > i + 1 /\ j <= Len(s) /\ s[j] = "]"
         THEN (IF SubSeq(s, i + 1, j - 1) \notin provided_ids
               THEN <<>> ELSE SubSeq(s, i, j))
              \o citation_sub(s, j + 1, provided_ids)
         ELSE <<s[i]>> \o citation_sub(s, i + 1, provided_ids)

\* [cid for cid in cites if cid in provided_ids]
RECURSIVE keep_provided(_, _)
keep_provided(cites, provided_ids) ==
    IF cites = <<>> THEN <<>>
    ELSE (IF Head(cites) \in provided_ids THEN <<Head(cites)>> ELSE <<>>)
         \o keep_provided(Tail(cites), provided_ids)

-----------------------------------------------------------------------------
(* Generation Service boundary: ask_lmstudio *)

\* The response body, by what json.loads and the {.*} search make of it:
\*   "json"      json.loads(raw) succeeds and gives value
\*   "wrapped"   json.loads(raw) fails, the {.*} match parses and gives value
\*   "no_object" json.loads(raw) fails and raw holds no {.*} match
\*   "bad_object" json.loads(raw) fails and so does the {.*} match
\* A body whose JSON value is not an object of strings and lists carries, in
\* place of value, the field py that names what json.loads gives:
\*   [py_type |-> "list", items |-> l]   a list of strings
\*   [py_type |-> "str", text |-> t]     a string
\*   [py_type |-> "int"], "NoneType"     a number, null
\*   [py_type |-> "dict", bad |-> k]   an object whose field k is a number
parse_response(raw) ==
    CASE raw.form = "json" -> IF "value" \in DOMAIN raw THEN raw.value ELSE raw.py
      [] raw.form = "wrapped" -> IF "value" \in DOMAIN raw THEN raw.value ELSE raw.py
      [] raw.form = "no_object" ->
            [narrative |-> <<>>, citationsUsed |-> <<>>, tokensUsed |-> <<>>,
             __parse_error |-> "no-json-object-found", __raw |-> raw]
      [] raw.form = "bad_object" ->
            [narrative |-> <<>>, citationsUsed |-> <<>>, tokensUsed |-> <<>>,
             __parse_error |-> "str(e)", __raw |-> raw]

ids_of(qs) == {qs[i].id : i \in 1..Len(qs)}

\* the guardrail that leaves the claimed citations as the generator gave them
guardrail_keep_citations(o, qs) ==
    LET provided_ids == ids_of(qs)
    IN  IF "narrative" \in DOMAIN o /\ provided_ids # {}
        THEN [o EXCEPT !.narrative = citation_sub(@, 1, provided_ids)]
        ELSE o

\* the guardrail of ask_lmstudio, applied to the parsed output
guardrail(o, qs) ==
    LET provided_ids == ids_of(qs)
        o1 == IF "citationsUsed" \in DOMAIN o
              THEN [o EXCEPT !.citationsUsed = keep_provided(@, provided_ids)]
              ELSE o
    IN  IF "narrative" \in DOMAIN o1 /\ provided_ids # {}
        THEN [o1 EXCEPT !.narrative = citation_sub(@, 1, provided_ids)]
        ELSE o1

\* the parsed output is a dict whose narrative is a str and whose
\* citationsUsed is a list of str, where present
IsWellTyped(o) == "py_type" \notin DOMAIN o

\* the str "citationsUsed" and the str "narrative"
KeyCitationsUsed == <<"c", "i", "t", "a", "t", "i", "o", "n", "s", "U", "s", "e", "d">>

KeyNarrative == <<"n", "a", "r", "r", "a", "t", "i", "v", "e">>

\* "key in o" for a parsed value that is not a dict: an item of a list, a
\* substring of a str
key_in(key, o) ==
    IF o.py_type = "list" THEN key \in Range(o.items)
    ELSE \E i \in 1..(Len(o.text) - Len(key) + 1) :
             SubSeq(o.text, i, i + Len(key) - 1) = key

\* the guardrail raises TypeError: "citationsUsed" in out on an int or None;
\* out["citationsUsed"] on a list or str that holds "citationsUsed", and
\* out["narrative"] on one that holds "narrative" (reached only when
\* provided_ids is not empty); iteration over a citationsUsed that is a
\* number, re.sub on a narrative that is a number (provided_ids not empty)
guardrail_raises(o, qs) ==
    \/ o.py_type \in {"int", "NoneType"}
    \/ o.py_type \in {"list", "str"}
          /\ (key_in(KeyCitationsUsed, o) \/ (key_in(KeyNarrative, o) /\ ids_of(qs) # {}))
    \/ o.py_type = "dict" /\ (o.bad = "citationsUsed" \/ ids_of(qs) # {})

TypeError == [py_raise |-> "TypeError"]

\* ask_lmstudio once call_lmstudio has returned the body raw; a list or a str
\* that holds neither key tested by the guardrail is returned as it is
ask_lmstudio(allowed, qs, raw) ==
    LET o == parse_response(raw) IN
    IF IsWellTyped(o) THEN guardrail(o, qs)
    ELSE IF guardrail_raises(o, qs) THEN TypeError
    ELSE o

-----------------------------------------------------------------------------
(* Specification of ask_lmstudio, called on its own *)

IdX == <<"x">>

AskChars == {"[", "]", "p", "x"}

CiteIds == {IdP, IdQ, IdX}

\* a JSON object of the generator: narrative and citationsUsed may be absent
GenObjects(narratives, cites) ==
    {[narrative |-> n, citationsUsed |-> c, tokensUsed |-> <<>>] :
        n \in narratives, c \in cites}
    \cup {[narrative |-> n, tokensUsed |-> <<>>] : n \in narratives}
    \cup {[citationsUsed |-> c, tokensUsed |-> <<>>] : c \in cites}
    \cup {[tokensUsed |-> <<>>]}

Responses(narratives, cites) ==
    {[form |-> f, value |-> v] :
        f \in {"json", "wrapped"}, v \in GenObjects(narratives, cites)}
    \cup {[form |-> "no_object"], [form |-> "bad_object"]}

\* JSON values that are not objects: lists of strings, strings, a number, null
NonObjectValues ==
    {[py_type |-> "list", items |-> it] :
        it \in {<<>>, << <<"h", "i">> >>, <<KeyCitationsUsed>>, <<KeyNarrative>>}}
    \cup {[py_type |-> "str", text |-> t] :
        t \in {<<"h", "i">>, <<"x">> \o KeyCitationsUsed \o <<"s">>,
               <<"a", " ">> \o KeyNarrative}}
    \cup {[py_type |-> "int"], [py_type |-> "NoneType"]}

IllTypedObjects ==
    {[py_type |-> "dict", bad |-> "narrative"],
     [py_type |-> "dict", bad |-> "citationsUsed"]}

\* the {.*} match of a wrapped body can only parse to an object
IllTypedResponses ==
    {[form |-> "json", py |-> v] : v \in NonObjectValues \cup IllTypedObjects}
    \cup {[form |-> "wrapped", py |-> v] : v \in IllTypedObjects}

QuoteLists ==
    {<<>>, <<[id |-> IdP, text |-> TextOf(1)]>>, <<[id |-> IdQ, text |-> TextOf(1)]>>,
     <<[id |-> IdP, text |-> TextOf(1)], [id |-> IdQ, text |-> TextOf(2)]>>}

InitAsk ==
    /\ REL = RelNone
    /\ InitStatic0
    /\ InitLocals0
    /\ pc = "call"
    /\ \E qs \in QuoteLists :
          call = [fn |-> "ask_lmstudio", allowed_tokens |-> <<>>, quotes |-> qs]
    /\ ret = NoRet

\* the Generation Service answers with the body raw, one requests.post
AskCall ==
    /\ pc = "call"
    /\ call.fn = "ask_lmstudio"
    /\ \E raw \in Responses(SeqsUpTo(AskChars, MaxNarr), SeqsUpTo(CiteIds, MaxCites))
                  \cup IllTypedResponses :
          /\ ask_lmstudio(call.allowed_tokens, call.quotes, raw) # TypeError
          /\ posts' = Append(posts, [raised |-> FALSE, raw |-> raw])
          /\ ret' = [done |-> TRUE, raw |-> raw,
                     value |-> ask_lmstudio(call.allowed_tokens, call.quotes, raw)]
    /\ pc' = "returned"
    /\ UNCHANGED <<static, call, activated, banned, allowed_tokens, quotes, out, log,
                   exit_code, dfs>>

\* the Generation Service answers with a body on which the guardrail raises
AskCrashes ==
    /\ pc = "call"
    /\ call.fn = "ask_lmstudio"
    /\ \E raw \in IllTypedResponses :
          /\ ask_lmstudio(call.allowed_tokens, call.quotes, raw) = TypeError
          /\ posts' = Append(posts, [raised |-> FALSE, raw |-> raw])
    /\ ret' = [done |-> TRUE, raised |-> TRUE]
    /\ pc' = "raised"
    /\ UNCHANGED <<static, call, activated, banned, allowed_tokens, quotes, out, log,
                   exit_code, dfs>>

\* requests.post times out or fails: call_lmstudio re-raises
AskFails ==
    /\ pc = "call"
    /\ call.fn = "ask_lmstudio"
    /\ posts' = Append(posts, [raised |-> TRUE])
    /\ ret' = [done |-> TRUE, raised |-> TRUE]
    /\ pc' = "raised"
    /\ UNCHANGED <<static, call, activated, banned, allowed_tokens, quotes, out, log,
                   exit_code, dfs>>

NextAsk == AskCall \/ AskCrashes \/ AskFails

SpecAsk == InitAsk /\ [][NextAsk]_vars

AskReturned == pc = "returned" /\ call.fn = "ask_lmstudio"

\* the ids of the inline markers [id] of the text s
MarkerIds(s) ==
    {SubSeq(s, i + 1, j - 1) : <<i, j>> \in
        {ij \in (1..Len(s)) \X (1..Len(s)) :
            /\ ij[2] > ij[1] + 1
            /\ s[ij[1]] = "[" /\ s[ij[2]] = "]"
            /\ \A k \in (ij[1] + 1)..(ij[2] - 1) : IsIdChar(s[k])}}

\* C4: after the repair step the narrative holds no marker [id] whose id is
\* not in the provided identifier list, whatever that list (the empty list
\* included); a text without such a marker is left unchanged.
C4_NoForeignMarkerAfterRepair ==
    (AskReturned /\ "narrative" \in DOMAIN ret.value) =>
        LET before == parse_response(ret.raw).narrative IN
        /\ MarkerIds(ret.value.narrative) \subseteq ids_of(call.quotes)
        /\ MarkerIds(before) \subseteq ids_of(call.quotes) => ret.value.narrative = before

-----------------------------------------------------------------------------
(* Lint *)

\* re.findall(r"\b[A-Z][A-Za-z0-9_]*\b", s) from position i on, taken without
\* the leading \b: a capital inside a word starts a match too
RECURSIVE findall_caps_anywhere(_, _)
findall_caps_anywhere(s, i) ==
    IF i > Len(s) THEN {}
    ELSE IF s[i] \in UpperChars
         THEN LET j == WordRunEnd(s, i + 1) IN
              {SubSeq(s, i, j - 1)} \cup findall_caps_anywhere(s, j)
         ELSE findall_caps_anywhere(s, i + 1)

\* set(re.findall(r"\b[A-Z][A-Za-z0-9_]*\b", s)), from position i on
RECURSIVE findall_caps(_, _)
findall_caps(s, i) ==
    IF i > Len(s) THEN {}
    ELSE IF IsBoundary(s, i) /\ s[i] \in UpperChars
         THEN LET j == WordRunEnd(s, i + 1) IN
              IF IsBoundary(s, j)
              THEN {SubSeq(s, i, j - 1)} \cup findall_caps(s, j)
              ELSE findall_caps(s, i + 1)
         ELSE findall_caps(s, i + 1)

\* re.search(rf"\b{re.escape(term)}\b", s, re.I)
search_term(term, s) ==
    \E i \in 1..(Len(s) - Len(term) + 1) :
        /\ IsBoundary(s, i)
        /\ lower(SubSeq(s, i, i + Len(term) - 1)) = lower(term)
        /\ IsBoundary(s, i + Len(term))

StrI == <<"I">>

StrPS1 == <<"P", "S", "1">>

Issue(kind, item) == [kind |-> kind, item |-> item]

Flag(st, kind, item) == [ok |-> FALSE, issues |-> Append(st.issues, Issue(kind, item))]

\* for t in used_caps, in iteration order caps; st = [ok, issues]
RECURSIVE lint_caps(_, _, _)
lint_caps(st, caps, allowed) ==
    IF caps = <<>> THEN st
    ELSE LET t == Head(caps) IN
         lint_caps(IF t \notin allowed /\ t \notin {StrI, StrPS1}
                   THEN Flag(st, "unallowed token", t) ELSE st,
                   Tail(caps), allowed)

\* for cid in cids, in iteration order cids
RECURSIVE lint_cids(_, _, _)
lint_cids(st, cids, valid_ids) ==
    IF cids = <<>> THEN st
    ELSE LET cid == Head(cids) IN
         lint_cids(IF cid \notin valid_ids THEN Flag(st, "bad citation id", cid) ELSE st,
                   Tail(cids), valid_ids)

\* the citation checks without the test for an empty citation list
lint_citations_nonempty_unchecked(st, cids, valid_ids) ==
    lint_cids(st, cids, valid_ids)

\* the two citation checks of lint_output
lint_citations(st, cids, valid_ids) ==
    lint_cids(IF cids = <<>> THEN Flag(st, "no citations used", <<>>) ELSE st,
              cids, valid_ids)

\* the banned-term loop stopping at the first term found
RECURSIVE lint_banned_first_only(_, _, _)
lint_banned_first_only(st, terms, narrative) ==
    IF terms = <<>> THEN st
    ELSE LET term == Head(terms) IN
         IF search_term(term, narrative)
         THEN Flag(st, "unrepresentable term present", term)
         ELSE lint_banned_first_only(st, Tail(terms), narrative)

\* for term in (banned_terms or [])
RECURSIVE lint_banned(_, _, _)
lint_banned(st, terms, narrative) ==
    IF terms = <<>> THEN st
    ELSE LET term == Head(terms) IN
         lint_banned(IF search_term(term, narrative)
                     THEN Flag(st, "unrepresentable term present", term) ELSE st,
                     Tail(terms), narrative)

used_caps_of(o) == findall_caps(Get(o, "narrative", <<>>), 1)

cids_of(o) == Range(Get(o, "citationsUsed", <<>>))

\* caps_order and cid_order are the orders in which the two sets are iterated
lint_output(o, allowed, provided_ids, banned_terms, caps_order, cid_order) ==
    LET st0 == [ok |-> TRUE, issues |-> <<>>]
        st1 == lint_caps(st0, caps_order, allowed)
        st2 == lint_citations(st1, cid_order, Range(provided_ids))
    IN  lint_banned(st2, banned_terms, Get(o, "narrative", <<>>))

-----------------------------------------------------------------------------
(* Specification of lint_output, called on its own *)

LintChars == {"A", "b", " "}

\* every text over LintChars, and texts with the two exempt words
LintTexts == SeqsUpTo(LintChars, MaxNarr)
             \cup {StrPS1, <<"P", "S">>, <<"P", "S", "1", "b">>,
                   StrI, <<"I", " ", "A">>, <<"I", "b">>}

LintCiteIds == {IdP, IdX}

BannedTerms == {<<"a">>, <<"b">>}

InitLint ==
    /\ REL = RelNone
    /\ InitStatic0
    /\ InitLocals0
    /\ pc = "call"
    /\ \E o \in GenObjects(LintTexts, SeqsUpTo(LintCiteIds, MaxCites)),
          al \in {{}, {SymA}}, pr \in {<<>>, <<IdP>>},
          bt \in SeqsUpTo(BannedTerms, 2) :
          call = [fn |-> "lint_output", out |-> o, allowed_tokens |-> al,
                  provided_ids |-> pr, banned_terms |-> bt]
    /\ ret = NoRet

LintCall ==
    /\ pc = "call"
    /\ call.fn = "lint_output"
    /\ \E caps_order \in Orders(used_caps_of(call.out)),
          cid_order \in Orders(cids_of(call.out)) :
          ret' = [done |-> TRUE,
                  value |-> lint_output(call.out, call.allowed_tokens, call.provided_ids,
                                        call.banned_terms, caps_order, cid_order)]
    /\ pc' = "returned"
    /\ UNCHANGED <<static, call, locals>>

NextLint == LintCall

SpecLint == InitLint /\ [][NextLint]_vars

LintReturned == pc = "returned" /\ call.fn = "lint_output"

\* the words of s: maximal runs of word characters
WordsOf(s) ==
    {SubSeq(s, i, j) : <<i, j>> \in
        {ij \in (1..Len(s)) \X (1..Len(s)) :
            /\ ij[1] <= ij[2]
            /\ \A k \in ij[1]..ij[2] : IsWordChar(s[k])
            /\ ij[1] = 1 \/ ~IsWordChar(s[ij[1] - 1])
            /\ ij[2] = Len(s) \/ ~IsWordChar(s[ij[2] + 1])}}

\* the capitalized words of the narrative that are neither allowed nor exempt
Offending(o, allowed) ==
    {w \in WordsOf(Get(o, "narrative", <<>>)) :
        w[1] \in UpperChars /\ w \notin allowed /\ w \notin {StrI, StrPS1}}

BadIds(o, provided_ids) == Range(Get(o, "citationsUsed", <<>>)) \ Range(provided_ids)

TermFound(term, o) ==
    \E w \in WordsOf(Get(o, "narrative", <<>>)) : lower(w) = lower(term)

CountIssue(issues, kind, item) == Count(issues, Issue(kind, item))

\* C6 (state part): the verdict is valid iff the issue list is empty, and the
\* issue list holds exactly one entry per distinct offending capitalized token,
\* 'no citations used' iff the citation list is empty, one entry per distinct
\* bad citation id and one entry per banned term found, and nothing else.
C6_IssuesComplete ==
    LintReturned =>
        LET o == call.out
            iss == ret.value.issues
        IN
        /\ ret.value.ok <=> iss = <<>>
        /\ \A k \in 1..Len(iss) :
              \/ iss[k].kind = "unallowed token"
                    /\ iss[k].item \in Offending(o, call.allowed_tokens)
              \/ iss[k].kind = "no citations used" /\ iss[k].item = <<>>
              \/ iss[k].kind = "bad citation id"
                    /\ iss[k].item \in BadIds(o, call.provided_ids)
              \/ iss[k].kind = "unrepresentable term present"
                    /\ iss[k].item \in Range(call.banned_terms)
        /\ \A w \in Offending(o, call.allowed_tokens) :
              CountIssue(iss, "unallowed token", w) = 1
        /\ CountIssue(iss, "no citations used", <<>>)
              = IF Get(o, "citationsUsed", <<>>) = <<>> THEN 1 ELSE 0
        /\ \A c \in BadIds(o, call.provided_ids) :
              CountIssue(iss, "bad citation id", c) = 1
        /\ \A t \in Range(call.banned_terms) :
              CountIssue(iss, "unrepresentable term present", t)
                 = IF TermFound(t, o) THEN Count(call.banned_terms, t) ELSE 0

\* C6: the state part above, and lint_output leaves the output it checks as
\* it was.
C6_LintCollectsAllAndIsPure ==
    /\ []C6_IssuesComplete
    /\ [][(pc = "call" /\ call.fn = "lint_output") => call'.out = call.out]_vars

\* two banned terms are found, a capitalized token offends and the citation
\* list is empty: four issues at once
C6_Witness ==
    /\ LintReturned
    /\ Len(ret.value.issues) = 4
    /\ \E i, j \in 1..Len(ret.value.issues) :
          /\ i # j
          /\ ret.value.issues[i].kind = "unrepresentable term present"
          /\ ret.value.issues[j].kind = "unrepresentable term present"
    /\ Offending(call.out, call.allowed_tokens) # {}

\* C7: an output whose citation list is empty or missing, or holds an id
\* outside the provided identifier list, is marked invalid.
C7_CitationViolationsInvalid ==
    LintReturned =>
        ((\/ "citationsUsed" \notin DOMAIN call.out
          \/ Get(call.out, "citationsUsed", <<>>) = <<>>
          \/ BadIds(call.out, call.provided_ids) # {})
         => ~ret.value.ok)

\* the citation list is missing and nothing else is wrong with the output
C7_Witness ==
    /\ LintReturned
    /\ "citationsUsed" \notin DOMAIN call.out
    /\ ret.value.issues = <<Issue("no citations used", <<>>)>>

\* C8: a narrative with a capitalized word that is neither allowed nor one of
\* "I", "PS1" is marked invalid, and a narrative whose capitalized words are
\* all allowed or exempt raises no 'unallowed token' issue.
C8_UnallowedCapitalizedInvalid ==
    LintReturned =>
        /\ Offending(call.out, call.allowed_tokens) # {} => ~ret.value.ok
        /\ Offending(call.out, call.allowed_tokens) = {} =>
              \A k \in 1..Len(ret.value.issues) :
                  ret.value.issues[k].kind # "unallowed token"

\* the allowed symbol "A" passes and the word "Ab" next to it is the only issue
C8_Witness ==
    /\ LintReturned
    /\ call.allowed_tokens = {SymA}
    /\ SymA \in WordsOf(Get(call.out, "narrative", <<>>))
    /\ Offending(call.out, call.allowed_tokens) = {<<"A", "b">>}
    /\ ret.value.issues = <<Issue("unallowed token", <<"A", "b">>)>>

-----------------------------------------------------------------------------
(* Interpreter *)

\* [t for t in re.split(r"[^a-z0-9_]+", s) if t], from position i on;
\* s is already lowercase
RECURSIVE split_tokens(_, _)
split_tokens(s, i) ==
    IF i > Len(s) THEN <<>>
    ELSE IF s[i] \in LowerChars \cup DigitChars \cup {"_"}
         THEN LET j == CHOOSE j \in (i + 1)..(Len(s) + 1) :
                         /\ \A k \in i..(j - 1) : s[k] \in LowerChars \cup DigitChars \cup {"_"}
                         /\ j = Len(s) + 1 \/ s[j] \notin LowerChars \cup DigitChars \cup {"_"}
              IN  <<SubSeq(s, i, j - 1)>> \o split_tokens(s, j)
         ELSE split_tokens(s, i + 1)

_tokenize(text) == split_tokens(lower(text), 1)

\* code points of the characters of the model
Ord(c) ==
    CASE c = " " -> 32 [] c = "*" -> 42 [] c = "-" -> 45 [] c = "." -> 46
      [] c = "0" -> 48 [] c = "1" -> 49
      [] c = "A" -> 65 [] c = "B" -> 66 [] c = "C" -> 67 [] c = "I" -> 73
      [] c = "P" -> 80 [] c = "S" -> 83 [] c = "X" -> 88
      [] c = "[" -> 91 [] c = "]" -> 93 [] c = "_" -> 95
      [] c = "a" -> 97 [] c = "b" -> 98 [] c = "c" -> 99 [] c = "i" -> 105
      [] c = "p" -> 112 [] c = "q" -> 113 [] c = "s" -> 115 [] c = "t" -> 116
      [] c = "x" -> 120

\* s < t for Python strings
StrLess(s, t) ==
    \E k \in 1..(Len(t)) :
        /\ k <= Len(s) + 1
        /\ \A i \in 1..(k - 1) : s[i] = t[i]
        /\ k = Len(s) + 1 \/ Ord(s[k]) < Ord(t[k])

\* sorted(S) for a set of strings
sorted(S) == CHOOSE q \in Orders(S) : \A i \in 1..(Len(q) - 1) : StrLess(q[i], q[i + 1])

\* the vocabulary gate left open: every symbol of the lexicon passes
in_vocabulary_any(w) == TRUE

in_vocabulary(w) ==
    \/ w \in Range(Get(SYMBOLS, "functions", <<>>))
    \/ w \in Range(Get(SYMBOLS, "literals", <<>>))
    \/ w \in DOMAIN Get(SYMBOLS, "enums", <<>>)

neutral_of(t) == Get(Get(NEUT_MAP, "lex2neutral", <<>>), t, <<>>)

sdk_of(n) == Get(Get(NEUT_MAP, "neutral2sdk", <<>>), n, <<>>)

\* interpret_event reporting every distinct token as unrepresentable
interpret_event_all_unrepresentable(text) ==
    LET tokens == _tokenize(text)
        neutral == UNION {Range(neutral_of(t)) : t \in Range(tokens)}
        sdk == {w \in UNION {Range(sdk_of(n)) : n \in neutral} : in_vocabulary(w)}
    IN  [bag_of_api |-> sorted(sdk),
         unrepresentable |-> sorted(Range(tokens))]

interpret_event(text) ==
    LET tokens == _tokenize(text)
        neutral == UNION {Range(neutral_of(t)) : t \in Range(tokens)}
        sdk == {w \in UNION {Range(sdk_of(n)) : n \in neutral} : in_vocabulary(w)}
        mapped_terms == {t \in Range(tokens) : neutral_of(t) # <<>>}
    IN  [bag_of_api |-> sorted(sdk),
         unrepresentable |-> sorted(Range(tokens) \ mapped_terms)]

\* interpret.py: the same three steps as separate functions
tokenize(text) == split_tokens(lower(text), 1)

to_neutral(tokens) == UNION {Range(neutral_of(t)) : t \in Range(tokens)}

neutral_to_sdk(neutral) ==
    {w \in UNION {Range(sdk_of(n)) : n \in neutral} : in_vocabulary(w)}

TextChars == {"a", "B", "x", " "}

LexA == <<"a">>
LexB == <<"b">>

\* lexicons: "a" is unknown, known without tags, or tagged; "b" has no tag or
\* the tag "m"; the tags lead to vocabulary symbols and to the foreign "X"
Lexicons ==
    {[lex2neutral |-> la @@ (LexB :> lb), neutral2sdk |-> ("n" :> sn) @@ ("m" :> sm)] :
        la \in {<<>>} \cup {(LexA :> tags) : tags \in {<<>>, <<"n">>, <<"n", "m">>}},
        lb \in {<<>>, <<"m">>},
        sn \in {<<SymA>>, <<SymB, <<"X">>>>},
        sm \in {<<<<"X">>>>, <<SymC>>, <<SymC, SymA>>}}

Vocabularies ==
    {[functions |-> <<SymA>>, literals |-> <<SymB>>, enums |-> (SymC :> <<>>)],
     [literals |-> <<SymA>>],
     [functions |-> <<>>, enums |-> (SymB :> <<>>) @@ (SymC :> <<>>)]}

InitInterpret ==
    /\ REL = <<>>
    /\ PASSAGES = <<>>
    /\ SYMBOLS \in Vocabularies
    /\ NEUT_MAP \in Lexicons
    /\ InitLocals0
    /\ pc = "call"
    /\ \E text \in SeqsUpTo(TextChars, MaxText) :
          call = [fn |-> "interpret_event", text |-> text]
    /\ ret = NoRet

InterpretCall ==
    /\ pc = "call"
    /\ call.fn = "interpret_event"
    /\ ret' = [done |-> TRUE, fn |-> "interpret_event", value |-> interpret_event(call.text)]
    /\ pc' = "returned"
    /\ UNCHANGED <<static, call, locals>>

\* interpret.py: neutral_to_sdk(to_neutral(tokenize(text)))
NeutralToSdkCall ==
    /\ pc = "call"
    /\ call.fn = "interpret_event"
    /\ ret' = [done |-> TRUE, fn |-> "neutral_to_sdk",
               value |-> neutral_to_sdk(to_neutral(tokenize(call.text)))]
    /\ pc' = "returned"
    /\ UNCHANGED <<static, call, locals>>

NextInterpret == InterpretCall \/ NeutralToSdkCall

SpecInterpret == InitInterpret /\ [][NextInterpret]_vars

-----------------------------------------------------------------------------
(* Orchestrator: generate_narrative *)

FALLBACK_NARRATIVE ==
    "No part of the PlayStation SDK vocabulary can be used to describe this event. The input does not map to any known SDK concepts or tokens."

fallback ==
    [narrative |-> FALLBACK_NARRATIVE, citationsUsed |-> <<>>, tokensUsed |-> <<>>,
     __ok |-> TRUE, __activated_tokens |-> <<>>, __allowed_tokens |-> <<>>,
     __provided_ids |-> <<>>, __fallback |-> TRUE]

\* the fallback guard testing only the token counts
fallback_guard_counts_only(act, ban, text) == Len(ban) = Len(_tokenize(text))

\* "not activated or len(banned) == len(_tokenize(event_text))"
fallback_guard(act, ban, text) == act = {} \/ Len(ban) = Len(_tokenize(text))

\* where generate_narrative goes after a verdict, retrying on an invalid one
after_lint_retry_invalid(ok) == IF ok THEN "DONE" ELSE "GENERATE"

\* where generate_narrative goes after lint: it returns, whatever the verdict
after_lint(ok) == "DONE"

Interpret ==
    /\ pc = "INTERPRET"
    /\ LET interp == interpret_event(call.event_text) IN
       /\ activated' = Range(interp.bag_of_api)
       /\ banned' = interp.unrepresentable
       /\ pc' = IF fallback_guard(Range(interp.bag_of_api), interp.unrepresentable,
                                  call.event_text)
                THEN "FALLBACK" ELSE "EXPAND"
    /\ log' = Append(log, "[1/5] Interpreting event")
    /\ UNCHANGED <<static, call, ret, allowed_tokens, quotes, out, posts, exit_code, dfs>>

Fallback ==
    /\ pc = "FALLBACK"
    /\ log' = Append(log, "[2/5] No SDK tokens activated. Returning fallback narrative.")
    /\ ret' = [done |-> TRUE, value |-> fallback]
    /\ pc' = "DONE"
    /\ UNCHANGED <<static, call, activated, banned, allowed_tokens, quotes, out, posts, exit_code, dfs>>

Expand ==
    /\ pc = "EXPAND"
    /\ log' = Append(log, "[2/5] Expanding prerequisites")
    /\ \E order \in Orders(activated) : allowed_tokens' = expand_with_requires(order)
    /\ pc' = "SELECT"
    /\ UNCHANGED <<static, call, ret, activated, banned, quotes, out, posts, exit_code, dfs>>

Select ==
    /\ pc = "SELECT"
    /\ log' = Append(log, "[3/5] Selecting passages (event-minimal)")
    /\ \E order \in Orders(activated) :
          quotes' = select_passages_event_minimal(activated, order, 4)
    /\ pc' = "GENERATE"
    /\ UNCHANGED <<static, call, ret, activated, banned, allowed_tokens, out, posts, exit_code, dfs>>

OrchNarratives == {<<>>, <<"A">>, <<"X", "[", "x", "]">>, <<"[", "p", "]", "x">>}

\* the Generation Service answers with the body raw
Generate ==
    /\ pc = "GENERATE"
    /\ log' = Append(log, "[4/5] Asking local LLM")
    /\ \E raw \in Responses(OrchNarratives, SeqsUpTo(CiteIds, MaxCites))
                  \cup IllTypedResponses :
          /\ ask_lmstudio(allowed_tokens, quotes, raw) # TypeError
          /\ posts' = Append(posts, [raised |-> FALSE, raw |-> raw])
          /\ out' = ask_lmstudio(allowed_tokens, quotes, raw)
    /\ pc' = "LINT"
    /\ UNCHANGED <<static, call, ret, activated, banned, allowed_tokens, quotes, exit_code, dfs>>

\* the Generation Service answers with a body on which the guardrail of
\* ask_lmstudio raises
GenerateCrashes ==
    /\ pc = "GENERATE"
    /\ log' = Append(log, "[4/5] Asking local LLM")
    /\ \E raw \in IllTypedResponses :
          /\ ask_lmstudio(allowed_tokens, quotes, raw) = TypeError
          /\ posts' = Append(posts, [raised |-> FALSE, raw |-> raw])
    /\ ret' = [done |-> TRUE, raised |-> TRUE]
    /\ pc' = "RAISED"
    /\ UNCHANGED <<static, call, activated, banned, allowed_tokens, quotes, out, exit_code, dfs>>

\* the transport failure swallowed: an empty output goes on to lint
GenerateFails_swallowed ==
    /\ pc = "GENERATE"
    /\ log' = Append(log, "[4/5] Asking local LLM")
    /\ posts' = Append(posts, [raised |-> TRUE])
    /\ out' = [narrative |-> <<>>, citationsUsed |-> <<>>, tokensUsed |-> <<>>]
    /\ pc' = "LINT"
    /\ UNCHANGED <<static, call, ret, activated, banned, allowed_tokens, quotes, exit_code, dfs>>

\* requests.post times out or fails: call_lmstudio re-raises
GenerateFails ==
    /\ pc = "GENERATE"
    /\ log' = Append(log, "[4/5] Asking local LLM")
    /\ posts' = Append(posts, [raised |-> TRUE])
    /\ ret' = [done |-> TRUE, raised |-> TRUE]
    /\ pc' = "RAISED"
    /\ UNCHANGED <<static, call, activated, banned, allowed_tokens, quotes, out, exit_code, dfs>>

Lint ==
    /\ pc = "LINT"
    /\ IsWellTyped(out)
    /\ log' = Append(log, "[5/5] Linting output")
    /\ \E caps_order \in Orders(used_caps_of(out)), cid_order \in Orders(cids_of(out)) :
          LET provided_ids == [i \in 1..Len(quotes) |-> quotes[i].id]
              verdict == lint_output(out, Range(allowed_tokens), provided_ids, banned,
                                     caps_order, cid_order)
              echo == [__ok |-> verdict.ok,
                       __activated_tokens |-> sorted(activated),
                       __allowed_tokens |-> allowed_tokens,
                       __provided_ids |-> provided_ids]
              result == IF verdict.ok THEN echo @@ out
                        ELSE echo @@ [__issues |-> verdict.issues] @@ out
          IN  /\ out' = result
              /\ ret' = [done |-> TRUE, value |-> result]
              /\ pc' = after_lint(verdict.ok)
    /\ UNCHANGED <<static, call, activated, banned, allowed_tokens, quotes, posts, exit_code, dfs>>

\* lint_output raises on an output that is no dict (out.get) or whose
\* narrative is no str (re.findall)
LintCrashes ==
    /\ pc = "LINT"
    /\ ~IsWellTyped(out)
    /\ log' = Append(log, "[5/5] Linting output")
    /\ ret' = [done |-> TRUE, raised |-> TRUE]
    /\ pc' = "RAISED"
    /\ UNCHANGED <<static, call, activated, banned, allowed_tokens, quotes, out, posts,
                   exit_code, dfs>>

\* main prints the result and returns
MainReturns ==
    /\ pc = "DONE"
    /\ exit_code = -1
    /\ exit_code' = 0
    /\ UNCHANGED <<static, pc, call, ret, activated, banned, allowed_tokens, quotes, out,
                   log, posts, dfs>>

\* main: except Exception, print "[FATAL]", sys.exit(1)
MainFatal ==
    /\ pc = "RAISED"
    /\ exit_code = -1
    /\ exit_code' = 1
    /\ UNCHANGED <<static, pc, call, ret, activated, banned, allowed_tokens, quotes, out,
                   log, posts, dfs>>

Next ==
    \/ Interpret \/ Fallback \/ Expand \/ Select
    \/ Generate \/ GenerateCrashes \/ GenerateFails
    \/ Lint \/ LintCrashes
    \/ MainReturns \/ MainFatal

\* the vocabulary and lexicon of the requests modelled
Vocabulary == [functions |-> <<SymA>>, literals |-> <<SymB>>, enums |-> (SymC :> <<>>)]

Lexicon ==
    [lex2neutral |-> (<<"a">> :> <<"n">>) @@ (<<"b">> :> <<"n", "m">>)
                     @@ (<<"c">> :> <<"k">>) @@ (<<"q">> :> <<>>),
     neutral2sdk |-> ("n" :> <<SymA>>) @@ ("m" :> <<SymB, <<"X">>>>) @@ ("k" :> <<<<"X">>>>)]

OrchCorpora ==
    {<<>>,
     <<PassageAt(1, IdP, FALSE, <<SymA>>), PassageAt(2, IdQ, TRUE, <<SymB>>)>>}

Init ==
    /\ REL \in {RelNone, RelAB}
    /\ PASSAGES \in OrchCorpora
    /\ SYMBOLS = Vocabulary
    /\ NEUT_MAP = Lexicon
    /\ InitLocals0
    /\ pc = "INTERPRET"
    /\ \E text \in SeqsUpTo(TextChars, MaxText) :
          call = [fn |-> "generate_narrative", event_text |-> text]
    /\ ret = NoRet

Spec == Init /\ [][Next]_vars

-----------------------------------------------------------------------------
(* interpret_llm.py: a second ask_lmstudio, without the guardrail, and the *)
(* orchestrator narrative_from_event built on it                           *)

JSONDecodeError == [py_raise |-> "JSONDecodeError"]

\* interpret_llm.ask_lmstudio once requests.post has returned the body raw:
\* the parsed value as it is; the default object when no {.*} is found; the
\* second json.loads is not guarded
interpret_llm_ask_lmstudio(allowed, qs, raw) ==
    CASE raw.form \in {"json", "wrapped"} ->
            IF "value" \in DOMAIN raw THEN raw.value ELSE raw.py
      [] raw.form = "no_object" ->
            [narrative |-> <<>>, citationsUsed |-> <<>>, tokensUsed |-> <<>>]
      [] raw.form = "bad_object" -> JSONDecodeError

LlmResponses == Responses(OrchNarratives, SeqsUpTo(CiteIds, MaxCites)) \cup IllTypedResponses

LlmCalls ==
    {[fn |-> "interpret_llm.ask_lmstudio", allowed_tokens |-> <<>>, quotes |-> qs] :
        qs \in QuoteLists}
    \cup {[fn |-> "narrative_from_event", event_text |-> <<"a">>,
           tokens_from_interpreter |-> t, unrep_terms |-> u] :
             t \in {<<>>, <<SymA>>, <<SymB>>, <<SymA, SymA>>},
             u \in {<<>>, << <<"x">> >>}}

InitLlm ==
    /\ REL \in {RelNone, RelAB}
    /\ PASSAGES \in OrchCorpora
    /\ SYMBOLS = [functions |-> <<>>, literals |-> <<>>, enums |-> <<>>]
    /\ NEUT_MAP = [lex2neutral |-> <<>>, neutral2sdk |-> <<>>]
    /\ InitLocals0
    /\ pc = "call"
    /\ call \in LlmCalls
    /\ ret = NoRet

LlmAskCall ==
    /\ pc = "call"
    /\ call.fn = "interpret_llm.ask_lmstudio"
    /\ \E raw \in LlmResponses :
          /\ interpret_llm_ask_lmstudio(call.allowed_tokens, call.quotes, raw) # JSONDecodeError
          /\ posts' = Append(posts, [raised |-> FALSE, raw |-> raw])
          /\ ret' = [done |-> TRUE, raw |-> raw,
                     value |-> interpret_llm_ask_lmstudio(call.allowed_tokens, call.quotes, raw)]
    /\ pc' = "returned"
    /\ UNCHANGED <<static, call, activated, banned, allowed_tokens, quotes, out, log,
                   exit_code, dfs>>

\* requests.post fails, or the {.*} match of the body does not parse
LlmAskRaises ==
    /\ pc = "call"
    /\ call.fn = "interpret_llm.ask_lmstudio"
    /\ \/ posts' = Append(posts, [raised |-> TRUE])
       \/ \E raw \in LlmResponses :
             /\ interpret_llm_ask_lmstudio(call.allowed_tokens, call.quotes, raw) = JSONDecodeError
             /\ posts' = Append(posts, [raised |-> FALSE, raw |-> raw])
    /\ ret' = [done |-> TRUE, raised |-> TRUE]
    /\ pc' = "raised"
    /\ UNCHANGED <<static, call, activated, banned, allowed_tokens, quotes, out, log,
                   exit_code, dfs>>

\* narrative_from_event, steps A to C: activated, allowed_tokens, quotes
NfePrepare ==
    /\ pc = "call"
    /\ call.fn = "narrative_from_event"
    /\ activated' = Range(call.tokens_from_interpreter)
    /\ \E order \in Orders(Range(call.tokens_from_interpreter)) :
          /\ allowed_tokens' = expand_with_requires(order)
          /\ quotes' = select_passages_event_minimal(
                           Range(call.tokens_from_interpreter), order, 4)
    /\ pc' = "ask"
    /\ UNCHANGED <<static, call, ret, banned, out, log, posts, exit_code, dfs>>

\* step D: the Generation Service answers with the body raw
NfeAsk ==
    /\ pc = "ask"
    /\ \E raw \in LlmResponses :
          /\ interpret_llm_ask_lmstudio(allowed_tokens, quotes, raw) # JSONDecodeError
          /\ posts' = Append(posts, [raised |-> FALSE, raw |-> raw])
          /\ out' = interpret_llm_ask_lmstudio(allowed_tokens, quotes, raw)
    /\ pc' = "lint"
    /\ UNCHANGED <<static, call, ret, activated, banned, allowed_tokens, quotes, log,
                   exit_code, dfs>>

\* step D raises: requests.post fails, or the {.*} match does not parse
NfeAskRaises ==
    /\ pc = "ask"
    /\ \/ posts' = Append(posts, [raised |-> TRUE])
       \/ \E raw \in LlmResponses :
             /\ interpret_llm_ask_lmstudio(allowed_tokens, quotes, raw) = JSONDecodeError
             /\ posts' = Append(posts, [raised |-> FALSE, raw |-> raw])
    /\ ret' = [done |-> TRUE, raised |-> TRUE]
    /\ pc' = "raised"
    /\ UNCHANGED <<static, call, activated, banned, allowed_tokens, quotes, out, log,
                   exit_code, dfs>>

\* step E: lint, the verdict written into the output, the output returned
NfeLint ==
    /\ pc = "lint"
    /\ IsWellTyped(out)
    /\ \E caps_order \in Orders(used_caps_of(out)), cid_order \in Orders(cids_of(out)) :
          LET provided_ids == [i \in 1..Len(quotes) |-> quotes[i].id]
              verdict == lint_output(out, Range(allowed_tokens), provided_ids,
                                     call.unrep_terms, caps_order, cid_order)
              result == IF verdict.ok THEN [__ok |-> TRUE] @@ out
                        ELSE [__ok |-> FALSE, __issues |-> verdict.issues] @@ out
          IN  /\ out' = result
              /\ ret' = [done |-> TRUE, value |-> result]
    /\ pc' = "returned"
    /\ UNCHANGED <<static, call, activated, banned, allowed_tokens, quotes, log, posts,
                   exit_code, dfs>>

\* step E raises on an output that is no dict (out.get) or whose fields
\* have other types (re.findall, set)
NfeLintRaises ==
    /\ pc = "lint"
    /\ ~IsWellTyped(out)
    /\ ret' = [done |-> TRUE, raised |-> TRUE]
    /\ pc' = "raised"
    /\ UNCHANGED <<static, call, activated, banned, allowed_tokens, quotes, out, log, posts,
                   exit_code, dfs>>

NextLlm ==
    \/ LlmAskCall \/ LlmAskRaises
    \/ NfePrepare \/ NfeAsk \/ NfeAskRaises \/ NfeLint \/ NfeLintRaises

SpecLlm == InitLlm /\ [][NextLlm]_vars

-----------------------------------------------------------------------------
(* Claims about generate_narrative *)

ProvidedIds == {quotes[i].id : i \in 1..Len(quotes)}

\* s is the sublist of t made of the elements of t that are in S, in order
IsFilterOf(s, t, S) ==
    LET kept == {i \in 1..Len(t) : t[i] \in S} IN
    /\ Len(s) = Cardinality(kept)
    /\ \A k \in 1..Len(s) :
          \E i \in kept : Cardinality({j \in kept : j <= i}) = k /\ s[k] = t[i]

\* C5: once the Generation Service has answered, the claimed citation list is
\* the order-preserving sublist of the generator's citations whose ids were
\* provided, and the lint that follows reports no 'bad citation id'.
C5_RepairedCitationsPassLint ==
    (pc \in {"LINT", "DONE"} /\ posts # <<>>) =>
        LET claimed == parse_response(posts[1].raw) IN
        /\ "citationsUsed" \in DOMAIN claimed =>
              IsFilterOf(out.citationsUsed, claimed.citationsUsed, ProvidedIds)
        /\ (pc = "DONE" /\ "__issues" \in DOMAIN ret.value) =>
              \A k \in 1..Len(ret.value.__issues) :
                  ret.value.__issues[k].kind # "bad citation id"

\* the generator cited "x", which was not provided, before "p", which was;
\* the request finished with a valid verdict
C5_Witness ==
    /\ pc = "DONE"
    /\ posts # <<>>
    /\ posts[1].raw.form = "json"
    /\ "citationsUsed" \in DOMAIN posts[1].raw.value
    /\ posts[1].raw.value.citationsUsed = <<IdX, IdP>>
    /\ ret.value.citationsUsed = <<IdP>>
    /\ ret.value.__ok

\* C9: when interpretation activates no symbol, the request goes to FALLBACK
\* and returns the fixed fallback result; no closure expansion, no selection,
\* no call to the Generation Service and no lint takes place.
C9_EmptyActivationFallsBack ==
    (pc # "INTERPRET" /\ activated = {}) =>
        /\ pc \in {"FALLBACK", "DONE"}
        /\ posts = <<>> /\ allowed_tokens = <<>> /\ quotes = <<>> /\ out = <<>>
        /\ pc = "FALLBACK" => log = <<"[1/5] Interpreting event">>
        /\ pc = "DONE" =>
              /\ ret = [done |-> TRUE, value |-> fallback]
              /\ log = <<"[1/5] Interpreting event",
                         "[2/5] No SDK tokens activated. Returning fallback narrative.">>

\* the input repeats a word absent from the lexicon: two raw tokens, one
\* unrepresentable term, nothing activated, and the fallback was returned
C9_Witness ==
    /\ pc = "DONE"
    /\ activated = {}
    /\ Len(_tokenize(call.event_text)) = 2
    /\ Len(banned) = 1
    /\ ret.value = fallback

StageLog ==
    <<"[1/5] Interpreting event", "[2/5] Expanding prerequisites",
      "[3/5] Selecting passages (event-minimal)", "[4/5] Asking local LLM",
      "[5/5] Linting output">>

StageAt(n) ==
    CASE n = 1 -> {"EXPAND"} [] n = 2 -> {"SELECT"} [] n = 3 -> {"GENERATE"}
      [] n = 4 -> {"LINT", "RAISED"} [] n = 5 -> {"DONE", "RAISED"}

OnMainPath == pc \in {"EXPAND", "SELECT", "GENERATE", "LINT", "DONE", "RAISED"} /\ activated # {}

\* C10 (state part): on the non-fallback path the stages run so far are a
\* prefix of INTERPRET, EXPAND, SELECT, GENERATE, LINT in that order, the
\* position is the stage that follows them, the Generation Service has been
\* called once from GENERATE on and never before, and DONE carries the
\* verdict, valid or invalid.
C10_StagesInOrder ==
    OnMainPath =>
        /\ Len(log) \in 1..5
        /\ log = SubSeq(StageLog, 1, Len(log))
        /\ pc \in StageAt(Len(log))
        /\ Len(posts) = IF Len(log) >= 4 THEN 1 ELSE 0
        /\ pc = "DONE" =>
              /\ ret.done /\ ret.value.__ok \in BOOLEAN
              /\ ret.value.__ok <=> "__issues" \notin DOMAIN ret.value

\* C10: the state part above, and every step moves to the next stage: LINT is
\* never followed by GENERATE.  A stage that raises ends the request there
\* (RAISED) and no later stage runs.
C10_StrictStageSequence ==
    /\ []C10_StagesInOrder
    /\ [][/\ pc = "EXPAND" => pc' = "SELECT"
          /\ pc = "SELECT" => pc' = "GENERATE"
          /\ pc = "GENERATE" => pc' \in {"LINT", "RAISED"}
          /\ pc = "LINT" => pc' \in {"DONE", "RAISED"}]_vars

\* a request reached DONE with an invalid verdict after exactly one call
C10_Witness ==
    /\ pc = "DONE"
    /\ activated # {}
    /\ Len(posts) = 1
    /\ ~ret.value.__ok
    /\ log = StageLog

-----------------------------------------------------------------------------
(* Claims about failures *)

Answered == posts # <<>> /\ ~posts[1].raised

\* C11: whatever body the Generation Service returns, the request does not
\* fail, and a body that cannot be parsed degrades to an output with empty
\* narrative, empty citations, empty tokens and a parse-error marker.
C11_AnyResponseBodyIsSurvived ==
    Answered =>
        /\ pc # "RAISED"
        /\ (pc \in {"LINT", "DONE"} /\ posts[1].raw.form \in {"no_object", "bad_object"}) =>
              /\ out.narrative = <<>> /\ out.citationsUsed = <<>> /\ out.tokensUsed = <<>>
              /\ "__parse_error" \in DOMAIN out

\* the part of C11 the code keeps: a body without a parsable {...} part
\* degrades to the empty output with a parse-error marker and gets a verdict
C11_UnparsableBodyDegrades ==
    (Answered /\ posts[1].raw.form \in {"no_object", "bad_object"}) =>
        /\ pc \in {"LINT", "DONE"}
        /\ out.narrative = <<>> /\ out.citationsUsed = <<>> /\ out.tokensUsed = <<>>
        /\ "__parse_error" \in DOMAIN out
        /\ pc = "DONE" => ~ret.value.__ok

TransportFailed == posts # <<>> /\ posts[1].raised

\* C12 (state part): after a timeout or transport failure the request has
\* raised: no result was returned, lint did not run, the Generation Service
\* was called once, and the process has not exited with status 0.
C12_TransportFailureState ==
    TransportFailed =>
        /\ pc = "RAISED"
        /\ ret = [done |-> TRUE, raised |-> TRUE]
        /\ Len(posts) = 1
        /\ log = SubSeq(StageLog, 1, 4)
        /\ exit_code \in {-1, 1}

\* C12: the state part above, and the only step that follows a transport
\* failure is the exit of the process with status 1: no retry, no lint.
C12_TransportFailureIsFatal ==
    /\ []C12_TransportFailureState
    /\ [][TransportFailed => (exit_code' = 1 /\ posts' = posts /\ pc' = pc /\ log' = log)]_vars

\* the call failed in transport and the process exited with status 1
C12_Witness ==
    /\ TransportFailed
    /\ pc = "RAISED"
    /\ exit_code = 1

\* the tokens of a text: the maximal runs of [a-z0-9_] of the lowercased text
TokensOf(text) == WordsOf(lower(text))

\* the neutral tags the lexicon lists for token t
TagsOf(t) ==
    IF "lex2neutral" \in DOMAIN NEUT_MAP /\ t \in DOMAIN NEUT_MAP.lex2neutral
    THEN Range(NEUT_MAP.lex2neutral[t]) ELSE {}

\* the symbols listed under neutral tag n
ListedUnder(n) ==
    IF "neutral2sdk" \in DOMAIN NEUT_MAP /\ n \in DOMAIN NEUT_MAP.neutral2sdk
    THEN Range(NEUT_MAP.neutral2sdk[n]) ELSE {}

VocabularySymbols ==
    (IF "functions" \in DOMAIN SYMBOLS THEN Range(SYMBOLS.functions) ELSE {})
    \cup (IF "literals" \in DOMAIN SYMBOLS THEN Range(SYMBOLS.literals) ELSE {})
    \cup (IF "enums" \in DOMAIN SYMBOLS THEN DOMAIN SYMBOLS.enums ELSE {})

ActivatedBy(text) ==
    {w \in VocabularySymbols :
        \E t \in TokensOf(text) : \E n \in TagsOf(t) : w \in ListedUnder(n)}

UnmappedIn(text) == {t \in TokensOf(text) : TagsOf(t) = {}}

NoRepeats(q) == \A i, j \in 1..Len(q) : q[i] = q[j] => i = j

\* C13: interpret_event activates exactly the vocabulary symbols listed under
\* a neutral tag of some input token, and reports as unrepresentable exactly
\* the distinct input tokens with zero neutral tags, each once.
C13_ActivationAndUnrepresentable ==
    (pc = "returned" /\ call.fn = "interpret_event") =>
        IF ret.fn = "interpret_event"
        THEN /\ Range(ret.value.bag_of_api) = ActivatedBy(call.text)
             /\ NoRepeats(ret.value.bag_of_api)
             /\ Range(ret.value.unrepresentable) = UnmappedIn(call.text)
             /\ NoRepeats(ret.value.unrepresentable)
        ELSE ret.value = ActivatedBy(call.text)

\* the token "b" has the tag "m", the only symbol under "m" is outside the
\* vocabulary: nothing is activated and "b" is not unrepresentable, "x" is
C13_Witness ==
    /\ pc = "returned" /\ call.fn = "interpret_event" /\ ret.fn = "interpret_event"
    /\ LexB \in TokensOf(call.text)
    /\ TagsOf(LexB) = {"m"}
    /\ ListedUnder("m") \cap VocabularySymbols = {}
    /\ ListedUnder("m") # {}
    /\ ret.value.bag_of_api = <<>>
    /\ ret.value.unrepresentable = << <<"x">> >>

\* T = activated plus closure(activated)
TargetsAndPrereqs(a) == a \cup UNION {Req(w) : w \in a}

\* corpus positions of the non-backbone passages substantiating a symbol of T
SubstantiatingOrdinary(a) ==
    {i \in 1..Len(PASSAGES) :
        /\ ~IsBackbone(PASSAGES[i])
        /\ Range(Get(PASSAGES[i], "tokens", <<>>)) \cap TargetsAndPrereqs(a) # {}}

ReturnedAt(k) == SourceOf(ret.value[k])

ReturnedPositions == {ReturnedAt(k) : k \in 1..Len(ret.value)}

ReturnedOrdinary == {k \in 1..Len(ret.value) : ~IsBackbone(PASSAGES[ReturnedAt(k)])}

ReturnedBackbone == {k \in 1..Len(ret.value) : IsBackbone(PASSAGES[ReturnedAt(k)])}

\* non-backbone passages come first, and each group keeps corpus order
GroupsInOrder ==
    \A i, j \in 1..Len(ret.value) :
        i < j =>
            /\ j \in ReturnedOrdinary => i \in ReturnedOrdinary
            /\ (i \in ReturnedOrdinary <=> j \in ReturnedOrdinary)
                  => ReturnedAt(i) < ReturnedAt(j)

\* C14: in the returned list every non-backbone passage precedes every backbone
\* passage, each group keeps corpus order, a backbone passage is returned only
\* if every non-backbone passage substantiating a symbol of T is returned too,
\* and when pass 1 alone reaches max_quotes no backbone passage is returned.
C14_BackboneOnlyAfterAllOrdinary ==
    SelectReturned =>
        /\ GroupsInOrder
        /\ ReturnedBackbone # {} =>
              SubstantiatingOrdinary(call.activated_tokens) \subseteq ReturnedPositions
        /\ Cardinality(ReturnedOrdinary) >= call.max_quotes => ReturnedBackbone = {}

\* the part of C14 the code keeps: the order as above; a backbone passage is
\* returned only if every non-backbone passage substantiating a symbol of T
\* has its identifier among the returned non-backbone passages; and when
\* pass 1 selects a passage and reaches max_quotes with it, no backbone
\* passage is returned.
C14_BackboneOnlyAfterAllOrdinaryIds ==
    SelectReturned =>
        /\ GroupsInOrder
        /\ ReturnedBackbone # {} =>
              \A i \in SubstantiatingOrdinary(call.activated_tokens) :
                  \E k \in ReturnedOrdinary : ret.value[k].id = PASSAGES[i].id
        /\ (ReturnedOrdinary # {} /\ Cardinality(ReturnedOrdinary) >= call.max_quotes)
              => ReturnedBackbone = {}

-----------------------------------------------------------------------------
(* The closure computation run one call or return at a time.               *)
(* dfs.stack holds the frames of add / add_with_requires under way, each   *)
(* [w, i]: the symbol and the position in its requires list of the next    *)
(* recursive call; dfs.t is the position of the next target in the loop.   *)

\* frames the interpreter allows before it raises RecursionError
RecursionLimit == 4

MaxDfsTargets == 2

\* relations with cycles allowed: requires lists of length at most one, and
\* a diamond and a cycle found on the second branch
StepRelations ==
    {[w \in D |-> [requires |-> <<f[w]>>]] : <<D, f>> \in
        UNION {{<<D, f>> : f \in [D -> Sym]} : D \in SUBSET Sym}}
    \cup {(SymA :> [requires |-> <<SymB, SymC>>]) @@ (SymB :> [requires |-> <<SymC>>]),
          (SymA :> [requires |-> <<SymB, SymC>>]) @@ (SymC :> [requires |-> <<SymA>>])}

InitClosureSteps ==
    /\ REL \in StepRelations
    /\ InitStatic0
    /\ InitLocals0
    /\ pc = "call"
    /\ \E t \in SeqsUpTo(Sym, MaxDfsTargets), f \in {"expand_with_requires", "topo_require_chain"} :
          call = [fn |-> f, tokens |-> t]
    /\ ret = NoRet

\* a recursive call or a call from the loop over the targets is due
CallDue ==
    /\ pc = "call"
    /\ IF dfs.stack = <<>> THEN dfs.t <= Len(call.tokens)
       ELSE dfs.stack[Len(dfs.stack)].i <= Len(requires_of(dfs.stack[Len(dfs.stack)].w))

\* the argument of the call that is due
Callee ==
    IF dfs.stack = <<>> THEN call.tokens[dfs.t]
    ELSE requires_of(dfs.stack[Len(dfs.stack)].w)[dfs.stack[Len(dfs.stack)].i]

\* the caller moved past the call that is due
AfterCall ==
    IF dfs.stack = <<>> THEN [dfs EXCEPT !.t = @ + 1]
    ELSE [dfs EXCEPT !.stack[Len(dfs.stack)].i = @ + 1]

\* add(w) that marks w visited as soon as it is entered
DfsEnter_marking ==
    /\ CallDue
    /\ Callee \notin dfs.seen
    /\ Len(dfs.stack) < RecursionLimit
    /\ dfs' = [AfterCall EXCEPT !.stack = Append(@, [w |-> Callee, i |-> 1]),
                                !.seen = @ \cup {Callee}]
    /\ UNCHANGED <<static, pc, call, ret, activated, banned, allowed_tokens, quotes, out,
                   log, posts, exit_code>>

\* add(w) with w not in seen: a new frame, seen is left as it is
DfsEnter ==
    /\ CallDue
    /\ Callee \notin dfs.seen
    /\ Len(dfs.stack) < RecursionLimit
    /\ dfs' = [AfterCall EXCEPT !.stack = Append(@, [w |-> Callee, i |-> 1])]
    /\ UNCHANGED <<static, pc, call, ret, activated, banned, allowed_tokens, quotes, out,
                   log, posts, exit_code>>

\* add(w) with w in seen: "if w in seen: return"
DfsSkip ==
    /\ CallDue
    /\ Callee \in dfs.seen
    /\ dfs' = AfterCall
    /\ UNCHANGED <<static, pc, call, ret, activated, banned, allowed_tokens, quotes, out,
                   log, posts, exit_code>>

\* add(w) with w not in seen and no depth left to go on: RecursionError
\* leaves the function
DfsOverflow ==
    /\ CallDue
    /\ Callee \notin dfs.seen
    /\ Len(dfs.stack) >= RecursionLimit
    /\ ret' = [done |-> TRUE, raised |-> TRUE]
    /\ pc' = "raised"
    /\ UNCHANGED <<static, call, activated, banned, allowed_tokens, quotes, out,
                   log, posts, exit_code, dfs>>

\* the loop over requires_of(w) is over: w is marked visited and emitted
\* (topo_require_chain tests "w not in seen" once more), the frame returns
DfsReturn ==
    /\ pc = "call"
    /\ dfs.stack # <<>>
    /\ ~CallDue
    /\ LET w == dfs.stack[Len(dfs.stack)].w IN
       dfs' = [dfs EXCEPT
                 !.stack = SubSeq(@, 1, Len(@) - 1),
                 !.seen = @ \cup {w},
                 !.out = IF call.fn = "topo_require_chain" /\ w \in dfs.seen
                         THEN @ ELSE Append(@, w)]
    /\ UNCHANGED <<static, pc, call, ret, activated, banned, allowed_tokens, quotes, out,
                   log, posts, exit_code>>

\* the loop over the targets is over: "return out"
DfsFinish ==
    /\ pc = "call"
    /\ dfs.stack = <<>>
    /\ ~CallDue
    /\ ret' = [done |-> TRUE, value |-> dfs.out]
    /\ pc' = "returned"
    /\ UNCHANGED <<static, call, activated, banned, allowed_tokens, quotes, out,
                   log, posts, exit_code, dfs>>

NextClosureSteps == DfsEnter \/ DfsSkip \/ DfsOverflow \/ DfsReturn \/ DfsFinish

\* the function runs to its end once called: no step is postponed for ever
SpecClosureSteps ==
    InitClosureSteps /\ [][NextClosureSteps]_vars /\ WF_vars(NextClosureSteps)

\* some target reaches a symbol that lies on a cycle of requires
CycleReachable ==
    \E t \in Range(call.tokens) : \E w \in {t} \cup Req(t) : w \in Req(w)

\* the frames under way hold one symbol twice
Reentered ==
    \E i, j \in 1..Len(dfs.stack) : i < j /\ dfs.stack[i].w = dfs.stack[j].w

\* C15: the closure computation returns a result iff no cycle of requires is
\* reachable from a target: without such a cycle it always returns, and with
\* one the recursion never ends: the call neither returns nor raises.
C15_RecursionNeverEnds ==
    /\ [](pc = "returned" => ~CycleReachable)
    /\ (~CycleReachable) ~> (pc = "returned")
    /\ [](CycleReachable => pc = "call")

\* C15 as the code keeps it: the closure computation returns a result iff no cycle of requires is
\* reachable from a target: without such a cycle it always returns (the
\* closure, as computed in one piece), with one it never returns; the
\* recursion re-enters a symbol whose frame is still open, since seen does not
\* hold it yet, and goes on until RecursionError ends it without a result.
C15_TerminatesIffAcyclic ==
    /\ [](pc = "returned" => (~CycleReachable /\ ret.value = expand_with_requires(call.tokens)))
    /\ [](pc = "raised" => (CycleReachable /\ Reentered /\ "value" \notin DOMAIN ret))
    /\ [](Reentered => CycleReachable)
    /\ (~CycleReachable) ~> (pc = "returned")
    /\ CycleReachable ~> (pc = "raised")

\* acyclic case: a diamond, the shared prerequisite skipped on its second call
C15_WitnessDiamond ==
    /\ pc = "returned"
    /\ call.tokens = <<SymA>>
    /\ requires_of(SymA) = <<SymB, SymC>> /\ requires_of(SymB) = <<SymC>>
    /\ ret.value = <<SymC, SymB, SymA>>

\* cyclic case: a symbol that requires itself fills the stack
C15_Witness ==
    /\ pc = "raised"
    /\ call.tokens = <<SymA>>
    /\ requires_of(SymA) = <<SymA>>
    /\ Len(dfs.stack) = RecursionLimit
    /\ \A i \in 1..Len(dfs.stack) : dfs.stack[i].w = SymA

\* the second test of the fallback guard
CountsAgree == Len(banned) = Len(_tokenize(call.event_text))

\* C16: generate_narrative takes the fallback path iff the activated set is
\* empty: once the event is interpreted, the second test of the guard (as many
\* unrepresentable terms as raw tokens) is true only with an empty activated
\* set; the step out of INTERPRET goes to FALLBACK iff nothing is activated and
\* to EXPAND iff something is; and the fallback result is returned iff the
\* activated set is empty.
C16_FallbackIffNoActivation ==
    /\ []((pc \notin {"INTERPRET"} /\ CountsAgree) => activated = {})
    /\ [][pc = "INTERPRET" =>
             /\ pc' = "FALLBACK" <=> activated' = {}
             /\ pc' = "EXPAND" <=> activated' # {}]_vars
    /\ []((pc = "DONE" /\ activated # {}) => "__fallback" \notin DOMAIN ret.value)
    /\ []((pc = "DONE" /\ activated = {}) => ret.value = fallback)

\* one token activates a symbol, the other is unrepresentable and repeated
\* tokens play no part: the request went on to EXPAND
C16_Witness ==
    /\ pc = "EXPAND"
    /\ activated = {SymA}
    /\ banned = << <<"x">> >>
    /\ Len(_tokenize(call.event_text)) = 2

====
